---- MODULE Spec2Model ----
(***************************************************************************)
(* Model of pygeoapi/provider/mvt_pmtiles.py: MVTPmtilesProvider.          *)
(*                                                                         *)
(* Strings that the code takes apart or glues together (URLs, paths, log   *)
(* messages) are sequences of tokens; "/" is always a token of its own, so *)
(* that url_join, str.split and Path normalisation act on them as in the   *)
(* code.  JSON values that the code only copies are opaque atoms.          *)
(***************************************************************************)
EXTENDS Integers, Sequences, FiniteSets, TLC

VARIABLES
    data,                  \* self.data: the configured location
    path_exists,           \* environment: Path(self.data).exists()
    reachable,             \* environment: the descriptor location answers
    descriptor,            \* environment: the document at that location
    state,                 \* "new", "ready" or "failed" (constructor raised)
    service_url,           \* self._service_url
    service_metadata_url,  \* self._service_metadata_url
    head_status,           \* status of the constructor's HEAD request
    log,                   \* messages handed to LOGGER.error
    calls,                 \* the render calls made so far and how each ended
    fetch_log,             \* the descriptor fetches made so far
    html_result,           \* outcome of the latest get_html_metadata call
    vendor_result          \* outcome of the latest get_vendor_metadata call

vars == <<data, path_exists, reachable, descriptor, state, service_url,
          service_metadata_url, head_status, log, calls, fetch_log,
          html_result, vendor_result>>

MaxFetches == 2

----------------------------------------------------------------------------
(* Token strings *)

SLASH == "/"

RECURSIVE lstrip(_)
lstrip(s) == IF s # <<>> /\ Head(s) = SLASH THEN lstrip(Tail(s)) ELSE s

RECURSIVE rstrip(_)
rstrip(s) ==
    IF s # <<>> /\ s[Len(s)] = SLASH THEN rstrip(SubSeq(s, 1, Len(s) - 1))
    ELSE s

strip(s) == rstrip(lstrip(s))

url_join(a, b) == rstrip(strip(a) \o <<SLASH>> \o strip(b))

StartsWith(s, p) == Len(p) <= Len(s) /\ SubSeq(s, 1, Len(p)) = p

EndsWith(s, p) ==
    Len(p) <= Len(s) /\ SubSeq(s, Len(s) - Len(p) + 1, Len(s)) = p

Contains(s, p) ==
    \E i \in 1..(Len(s) + 1) : StartsWith(SubSeq(s, i, Len(s)), p)

\* str.split(p)[0]: what precedes the first occurrence of p, all of s if none
SplitHead(s, p) ==
    IF Contains(s, p)
    THEN LET i == CHOOSE k \in 1..(Len(s) + 1) :
                    /\ StartsWith(SubSeq(s, k, Len(s)), p)
                    /\ \A m \in 1..(k - 1) :
                          ~StartsWith(SubSeq(s, m, Len(s)), p)
         IN  SubSeq(s, 1, i - 1)
    ELSE s

----------------------------------------------------------------------------
(* Configuration and environment *)

UrlData == <<"http", "://", "tiles.example", SLASH, "roads", SLASH,
             "{z}", SLASH, "{x}", SLASH, "{y}">>
PathData == <<SLASH, "srv", SLASH, "roads">>
PathDataSlash == PathData \o <<SLASH>>

Configs == {UrlData, PathData, PathDataSlash}

HeadStatuses == {200, 404}

is_url(d) == Len(d) >= 3 /\ d[1] \in {"http", "https"} /\ d[2] = "://"

\* urllib.parse.urlparse, for scheme://netloc/path
urlparse(d) == [scheme |-> d[1], netloc |-> d[3],
                path |-> SubSeq(d, 4, Len(d))]

\* MVTTippecanoeProvider.get_layer for a URL: the path before /{z}/{x}/{y},
\* without its leading slash
get_layer(d) ==
    Tail(SplitHead(urlparse(d).path,
                   <<SLASH, "{z}", SLASH, "{x}", SLASH, "{y}">>))

\* pathlib.Path(d): trailing separators are dropped
Path(d) == IF rstrip(d) = <<>> THEN <<SLASH>> ELSE rstrip(d)

joinpath(p, name) == rstrip(p) \o <<SLASH, name>>

OptionalKeys == {"name", "description", "attribution", "bounds", "center",
                 "minzoom", "maxzoom"}
DescriptorKeys == OptionalKeys \cup {"vector_layers", "tiles"}

UpstreamTiles == << <<"http", "://", "tiles.example", SLASH, "roads", SLASH,
                      "{z}", SLASH, "{x}", SLASH, "{y}", ".mvt">> >>

DescriptorValue(k) ==
    CASE k = "name" -> "roads"
      [] k = "description" -> "road network"
      [] k = "attribution" -> "osm"
      [] k = "bounds" -> "[-180,-85,180,85]"
      [] k = "center" -> "[0,0,2]"
      [] k = "minzoom" -> "0"
      [] k = "maxzoom" -> "14"
      [] k = "vector_layers" -> "[{id:roads}]"
      [] k = "tiles" -> UpstreamTiles

Descriptors == {[k \in S |-> DescriptorValue(k)] : S \in SUBSET DescriptorKeys}

ServerUrls == {<<"http", "://", "api.example">>,
               <<"http", "://", "api.example", SLASH>>}
Dataset == "lakes"
Tileset == "WebMercatorQuad"
Title == "Lakes"

----------------------------------------------------------------------------
(* Construction *)

TilePlaceholders == <<"{tileMatrix}", SLASH, "{tileRow}", SLASH, "{tileCol}">>

MetadataMissing(what) == <<"Service metadata does not exist: ">> \o what

\* __init__, URL branch; status is the status code of the HEAD response
init_url(d, status) ==
    LET url == urlparse(d)
        baseurl == <<url.scheme, "://", url.netloc>>
        layer == <<SLASH>> \o get_layer(d)
        tilepath == layer \o <<SLASH, "tiles">>
        servicepath == tilepath \o <<SLASH, "{tileMatrixSetId}", SLASH>>
                           \o TilePlaceholders \o <<"?f=mvt">>
        svc == url_join(baseurl, servicepath)
        interim == url_join(SplitHead(svc, TilePlaceholders), <<"metadata">>)
        metadata_path == baseurl \o <<SLASH>> \o layer \o <<".json">>
    IN  [raised |-> FALSE,
         service_url |-> svc,
         interim |-> interim,
         service_metadata_url |-> metadata_path,
         log |-> IF status # 200 THEN {MetadataMissing(metadata_path)}
                 ELSE {}]

\* init_path without the check that the configured path exists
init_path_unchecked(d, exists, meta_exists) ==
    LET data_path == Path(d)
        metadata_path == joinpath(data_path, "metadata")
    IN  [raised |-> FALSE,
         service_url |-> data_path,
         interim |-> <<>>,
         service_metadata_url |-> metadata_path,
         log |-> IF ~meta_exists THEN {MetadataMissing(<<"metadata">>)}
                 ELSE {}]

\* __init__, local branch; exists and meta_exists are the two exists() answers
init_path(d, exists, meta_exists) ==
    LET data_path == Path(d)
        metadata_path == joinpath(data_path, "metadata")
    IN  IF ~exists
        THEN [raised |-> TRUE,
              service_url |-> <<>>,
              interim |-> <<>>,
              service_metadata_url |-> <<>>,
              log |-> {<<"Service does not exist: ">> \o d}]
        ELSE [raised |-> FALSE,
              service_url |-> data_path,
              interim |-> <<>>,
              service_metadata_url |-> metadata_path,
              log |-> IF ~meta_exists THEN {MetadataMissing(<<"metadata">>)}
                      ELSE {}]

----------------------------------------------------------------------------
(* Descriptor fetch and reshaping *)

NoneValue == "None"

\* MVTTilesJson(): every field at its default
MVTTilesJson == [name |-> NoneValue, description |-> NoneValue,
                 attribution |-> NoneValue, bounds |-> NoneValue,
                 center |-> NoneValue, minzoom |-> NoneValue,
                 maxzoom |-> NoneValue, tiles |-> NoneValue,
                 vector_layers |-> NoneValue]

\* get_metadata_from_URL: the document, or ProviderConnectionError
get_metadata_from_URL(location) ==
    IF reachable THEN [ok |-> TRUE, doc |-> descriptor]
    ELSE [ok |-> FALSE, doc |-> <<>>]

Has(j, k) == k \in DOMAIN j

\* html_content keeping the tiles of the fetched document
html_content_upstream_tiles(j, tile_url) ==
    [name |-> IF Has(j, "name") THEN j["name"] ELSE MVTTilesJson.name,
     description |-> IF Has(j, "description") THEN j["description"]
                     ELSE MVTTilesJson.description,
     attribution |-> IF Has(j, "attribution") THEN j["attribution"]
                     ELSE MVTTilesJson.attribution,
     bounds |-> IF Has(j, "bounds") THEN j["bounds"] ELSE MVTTilesJson.bounds,
     center |-> IF Has(j, "center") THEN j["center"] ELSE MVTTilesJson.center,
     minzoom |-> IF Has(j, "minzoom") THEN j["minzoom"]
                 ELSE MVTTilesJson.minzoom,
     maxzoom |-> IF Has(j, "maxzoom") THEN j["maxzoom"]
                 ELSE MVTTilesJson.maxzoom,
     tiles |-> IF Has(j, "tiles") THEN j["tiles"] ELSE <<tile_url>>,
     vector_layers |-> j["vector_layers"]]

\* the field-by-field copy of get_html_metadata; j has vector_layers
html_content(j, tile_url) ==
    [name |-> IF Has(j, "name") THEN j["name"] ELSE MVTTilesJson.name,
     description |-> IF Has(j, "description") THEN j["description"]
                     ELSE MVTTilesJson.description,
     attribution |-> IF Has(j, "attribution") THEN j["attribution"]
                     ELSE MVTTilesJson.attribution,
     bounds |-> IF Has(j, "bounds") THEN j["bounds"] ELSE MVTTilesJson.bounds,
     center |-> IF Has(j, "center") THEN j["center"] ELSE MVTTilesJson.center,
     minzoom |-> IF Has(j, "minzoom") THEN j["minzoom"]
                 ELSE MVTTilesJson.minzoom,
     maxzoom |-> IF Has(j, "maxzoom") THEN j["maxzoom"]
                 ELSE MVTTilesJson.maxzoom,
     tiles |-> <<tile_url>>,
     vector_layers |-> j["vector_layers"]]

\* vendor_content without the copy of attribution
vendor_content_no_attribution(j, tile_url) ==
    [name |-> IF Has(j, "name") THEN j["name"] ELSE MVTTilesJson.name,
     description |-> IF Has(j, "description") THEN j["description"]
                     ELSE MVTTilesJson.description,
     attribution |-> MVTTilesJson.attribution,
     bounds |-> IF Has(j, "bounds") THEN j["bounds"] ELSE MVTTilesJson.bounds,
     center |-> IF Has(j, "center") THEN j["center"] ELSE MVTTilesJson.center,
     minzoom |-> IF Has(j, "minzoom") THEN j["minzoom"]
                 ELSE MVTTilesJson.minzoom,
     maxzoom |-> IF Has(j, "maxzoom") THEN j["maxzoom"]
                 ELSE MVTTilesJson.maxzoom,
     tiles |-> <<tile_url>>,
     vector_layers |-> j["vector_layers"]]

\* the field-by-field copy of get_vendor_metadata; j has vector_layers
vendor_content(j, tile_url) ==
    [name |-> IF Has(j, "name") THEN j["name"] ELSE MVTTilesJson.name,
     description |-> IF Has(j, "description") THEN j["description"]
                     ELSE MVTTilesJson.description,
     attribution |-> IF Has(j, "attribution") THEN j["attribution"]
                     ELSE MVTTilesJson.attribution,
     bounds |-> IF Has(j, "bounds") THEN j["bounds"] ELSE MVTTilesJson.bounds,
     center |-> IF Has(j, "center") THEN j["center"] ELSE MVTTilesJson.center,
     minzoom |-> IF Has(j, "minzoom") THEN j["minzoom"]
                 ELSE MVTTilesJson.minzoom,
     maxzoom |-> IF Has(j, "maxzoom") THEN j["maxzoom"]
                 ELSE MVTTilesJson.maxzoom,
     tiles |-> <<tile_url>>,
     vector_layers |-> j["vector_layers"]]

CollectionTiles(dataset, tileset) ==
    <<"collections", SLASH, dataset, SLASH, "tiles", SLASH, tileset>>

NoCall == [kind |-> "none", server_url |-> <<>>, fetched |-> FALSE,
           value |-> <<>>, message |-> <<>>]

Returned(call, value) == [call EXCEPT !.kind = "return", !.value = value]

Raised(call, kind, message) ==
    [call EXCEPT !.kind = kind, !.message = message]

CallOf(server_url, fetch) ==
    [NoCall EXCEPT !.server_url = server_url, !.fetched = fetch.ok]

\* get_html_metadata: service_url
html_service_url(dataset, server_url, tileset) ==
    url_join(server_url,
             CollectionTiles(dataset, tileset) \o <<SLASH>>
                 \o TilePlaceholders \o <<"?f=mvt">>)

\* get_html_metadata and get_vendor_metadata: metadata_url
tiles_metadata_url(dataset, server_url, tileset) ==
    url_join(server_url,
             CollectionTiles(dataset, tileset) \o <<SLASH, "metadata">>)

\* get_html_metadata: the keys set before the fetch
html_envelope(dataset, server_url, tileset, title) ==
    [id |-> dataset, title |-> title, tileset |-> tileset,
     collections_path |-> html_service_url(dataset, server_url, tileset),
     json_url |-> tiles_metadata_url(dataset, server_url, tileset)
                      \o <<"?f=json">>]

\* get_html_metadata: the keys set after the fetch
html_vendor_keys(dataset, server_url, tileset, j) ==
    [metadata |-> html_content(j, html_service_url(dataset, server_url,
                                                   tileset)),
     tilejson_url |-> tiles_metadata_url(dataset, server_url, tileset)
                          \o <<"?f=tilejson">>]

\* html_render without the except clause
html_render_uncaught(dataset, server_url, tileset, title, fetch) ==
    LET metadata == html_envelope(dataset, server_url, tileset, title)
        call == CallOf(server_url, fetch)
    IN  IF ~fetch.ok
        THEN Raised(call, "ProviderConnectionError", <<>>)
        ELSE IF ~Has(fetch.doc, "vector_layers")
        THEN Raised(call, "KeyError", <<"vector_layers">>)
        ELSE Returned(call, html_vendor_keys(dataset, server_url, tileset,
                                             fetch.doc) @@ metadata)

\* html_render reading vector_layers with a default
html_render_default_layers(dataset, server_url, tileset, title, fetch) ==
    LET metadata == html_envelope(dataset, server_url, tileset, title)
        call == CallOf(server_url, fetch)
    IN  IF ~fetch.ok
        THEN Returned(call, metadata)
        ELSE Returned(call,
                 html_vendor_keys(dataset, server_url, tileset,
                     fetch.doc @@ [vector_layers |-> "[]"]) @@ metadata)

\* html_render setting tilejson_url before the fetch
html_render_early_tilejson(dataset, server_url, tileset, title, fetch) ==
    LET metadata == html_envelope(dataset, server_url, tileset, title)
                    @@ [tilejson_url |->
                           tiles_metadata_url(dataset, server_url, tileset)
                               \o <<"?f=tilejson">>]
        call == CallOf(server_url, fetch)
    IN  IF ~fetch.ok
        THEN Returned(call, metadata)
        ELSE IF ~Has(fetch.doc, "vector_layers")
        THEN Raised(call, "KeyError", <<"vector_layers">>)
        ELSE Returned(call, html_vendor_keys(dataset, server_url, tileset,
                                             fetch.doc) @@ metadata)

\* get_html_metadata, given the outcome of its descriptor fetch
html_render(dataset, server_url, tileset, title, fetch) ==
    LET metadata == html_envelope(dataset, server_url, tileset, title)
        call == CallOf(server_url, fetch)
    IN  IF ~fetch.ok
        THEN Returned(call, metadata)
        ELSE IF ~Has(fetch.doc, "vector_layers")
        THEN Raised(call, "KeyError", <<"vector_layers">>)
        ELSE Returned(call, html_vendor_keys(dataset, server_url, tileset,
                                             fetch.doc) @@ metadata)

\* get_vendor_metadata: service_url
vendor_service_url(dataset, server_url, tileset) ==
    url_join(server_url,
             CollectionTiles(dataset, tileset)
                 \o <<SLASH, "{z}", SLASH, "{x}", SLASH, "{y}", "?f=mvt">>)

\* vendor_message without the location
vendor_message_bare(metadata_location) ==
    <<"No tiles metadata json available">>

\* get_vendor_metadata: the message of the error it raises
vendor_message(metadata_location) ==
    <<"No tiles metadata json available: ">> \o metadata_location

\* get_vendor_metadata, given the outcome of its descriptor fetch
vendor_render(dataset, server_url, tileset, metadata_location, fetch) ==
    LET call == CallOf(server_url, fetch)
    IN  IF ~fetch.ok
        THEN Raised(call, "ProviderConnectionError",
                    vendor_message(metadata_location))
        ELSE IF ~Has(fetch.doc, "vector_layers")
        THEN Raised(call, "KeyError", <<"vector_layers">>)
        ELSE Returned(call,
                      vendor_content(fetch.doc,
                          vendor_service_url(dataset, server_url, tileset)))

html_fetch == get_metadata_from_URL(service_metadata_url)

\* vendor_fetch answering from the previous successful call
vendor_fetch_cached ==
    IF vendor_result.kind = "return" THEN [ok |-> TRUE, doc |-> descriptor]
    ELSE get_metadata_from_URL(service_metadata_url)

vendor_fetch == get_metadata_from_URL(service_metadata_url)

----------------------------------------------------------------------------
(* The resolver's life *)

Init ==
    /\ data \in Configs
    /\ path_exists \in BOOLEAN
    /\ reachable \in BOOLEAN
    /\ ~is_url(data) /\ ~path_exists => ~reachable
    /\ descriptor \in Descriptors
    /\ state = "new"
    /\ service_url = <<>>
    /\ service_metadata_url = <<>>
    /\ head_status = 0
    /\ log = {}
    /\ calls = <<>>
    /\ fetch_log = <<>>
    /\ html_result = NoCall
    /\ vendor_result = NoCall

Construct ==
    /\ state = "new"
    /\ \E status \in HeadStatuses :
          LET r == IF is_url(data) THEN init_url(data, status)
                   ELSE init_path(data, path_exists, reachable)
          IN  /\ state' = IF r.raised THEN "failed" ELSE "ready"
              /\ service_url' = r.service_url
              /\ service_metadata_url' = r.service_metadata_url
              /\ log' = log \cup r.log
              /\ head_status' = IF is_url(data) THEN status ELSE 0
    /\ UNCHANGED <<data, path_exists, reachable, descriptor, calls,
                   fetch_log, html_result, vendor_result>>

\* the descriptor location comes up or goes down between calls
LocationChange ==
    /\ is_url(data) \/ path_exists
    /\ reachable' = ~reachable
    /\ UNCHANGED <<data, path_exists, descriptor, state, service_url,
                   service_metadata_url, head_status, log, calls,
                   fetch_log, html_result, vendor_result>>

\* what the descriptor location sees of one get_metadata_from_URL call
Fetched(location) == [url |-> location, answered |-> reachable]

\* GetHtmlMetadata storing its service_url on the resolver
GetHtmlMetadataStoring ==
    /\ state = "ready"
    /\ Len(calls) < MaxFetches
    /\ \E server_url \in ServerUrls :
          LET r == html_render(Dataset, server_url, Tileset, Title,
                               html_fetch)
          IN  /\ html_result' = r
              /\ calls' = Append(calls, [op |-> "html", kind |-> r.kind])
              /\ service_url' = html_service_url(Dataset, server_url,
                                                 Tileset)
    /\ fetch_log' = Append(fetch_log, Fetched(service_metadata_url))
    /\ UNCHANGED <<data, path_exists, reachable, descriptor, state,
                   service_metadata_url, head_status, log, vendor_result>>

GetHtmlMetadata ==
    /\ state = "ready"
    /\ Len(calls) < MaxFetches
    /\ \E server_url \in ServerUrls :
          LET r == html_render(Dataset, server_url, Tileset, Title,
                               html_fetch)
          IN  /\ html_result' = r
              /\ calls' = Append(calls, [op |-> "html", kind |-> r.kind])
    /\ fetch_log' = Append(fetch_log, Fetched(service_metadata_url))
    /\ UNCHANGED <<data, path_exists, reachable, descriptor, state,
                   service_url, service_metadata_url, head_status, log,
                   vendor_result>>

GetVendorMetadata ==
    /\ state = "ready"
    /\ Len(calls) < MaxFetches
    /\ \E server_url \in ServerUrls :
          LET r == vendor_render(Dataset, server_url, Tileset,
                                 service_metadata_url, vendor_fetch)
          IN  /\ vendor_result' = r
              /\ calls' = Append(calls, [op |-> "vendor", kind |-> r.kind])
              /\ log' = IF r.kind = "ProviderConnectionError"
                        THEN log \cup {r.message} ELSE log
    /\ fetch_log' = Append(fetch_log, Fetched(service_metadata_url))
    /\ UNCHANGED <<data, path_exists, reachable, descriptor, state,
                   service_url, service_metadata_url, head_status,
                   html_result>>

Next == \/ Construct
        \/ LocationChange
        \/ GetHtmlMetadata
        \/ GetVendorMetadata

Spec == Init /\ [][Next]_vars

----------------------------------------------------------------------------
(* Properties *)

Calls(op) == {i \in 1..Len(calls) : calls[i].op = op}

HasLayers == Has(descriptor, "vector_layers")

FixedKeys == {"id", "title", "tileset", "collections_path", "json_url"}
FetchKeys == {"metadata", "tilejson_url"}
ContentKeys == OptionalKeys \cup {"tiles", "vector_layers"}

ExpectedHtmlTiles ==
    <<"http", "://", "api.example", SLASH, "collections", SLASH, "lakes",
      SLASH, "tiles", SLASH, "WebMercatorQuad", SLASH, "{tileMatrix}", SLASH,
      "{tileRow}", SLASH, "{tileCol}", "?f=mvt">>

ExpectedVendorTiles ==
    <<"http", "://", "api.example", SLASH, "collections", SLASH, "lakes",
      SLASH, "tiles", SLASH, "WebMercatorQuad", SLASH, "{z}", SLASH, "{x}",
      SLASH, "{y}", "?f=mvt">>

ExpectedLocalPath == <<SLASH, "srv", SLASH, "roads">>
ExpectedLocalMetadata == <<SLASH, "srv", SLASH, "roads", SLASH, "metadata">>
ExpectedRemoteMetadata ==
    <<"http", "://", "tiles.example", SLASH, "roads", ".json">>

\* C1 as stated: get_html_metadata never fails; whatever the fetch gave
\* (connection error, or a document with any subset of the fields), every
\* call returns a mapping.
C1_HtmlNeverFails ==
    /\ \A i \in Calls("html") : calls[i].kind = "return"
    /\ html_result.kind \in {"none", "return"}

\* C1 amended: get_html_metadata never raises a connection error; it returns
\* a mapping when the fetch fails and when the fetched document has
\* vector_layers, and raises the lookup error on vector_layers exactly when
\* the fetch succeeded and the document has no vector_layers.
C1_HtmlFailsOnlyOnMissingLayers ==
    /\ \A i \in Calls("html") :
          /\ calls[i].kind \in {"return", "KeyError"}
          /\ calls[i].kind = "KeyError"
                <=> (fetch_log[i].answered /\ ~HasLayers)
    /\ html_result.kind \in {"none", "return", "KeyError"}
    /\ html_result.kind = "return" => DOMAIN html_result.value # {}

C1_Witness ==
    /\ html_result.kind = "return"
    /\ ~html_result.fetched
    /\ DOMAIN descriptor = {}

\* C2: when the fetch succeeds and the document has no vector_layers, both
\* get_html_metadata and get_vendor_metadata raise; neither returns a result
\* nor puts a default vector_layers in one.
C2_MissingLayersRaises ==
    /\ \A i \in 1..Len(calls) :
          fetch_log[i].answered /\ ~HasLayers => calls[i].kind = "KeyError"
    /\ \A r \in {html_result, vendor_result} :
          r.kind # "none" /\ r.fetched /\ ~HasLayers
              => /\ r.kind = "KeyError"
                 /\ r.value = <<>>
                 /\ r.message = <<"vector_layers">>

C2_Witness ==
    /\ ~HasLayers
    /\ html_result.kind = "KeyError"
    /\ vendor_result.kind = "KeyError"

\* C3: when its fetch fails with a connection error, get_vendor_metadata
\* raises a connection error whose message contains service_metadata_url and
\* returns nothing; for a resolver built on an existing local directory
\* without a metadata file the message names <path>/metadata.
C3_VendorRaisesNamingLocation ==
    /\ \A i \in Calls("vendor") :
          ~fetch_log[i].answered
              => /\ calls[i].kind = "ProviderConnectionError"
                 /\ fetch_log[i].url = service_metadata_url
    /\ vendor_result.kind # "none" /\ ~vendor_result.fetched
          => /\ vendor_result.kind = "ProviderConnectionError"
             /\ vendor_result.value = <<>>
             /\ service_metadata_url # <<>>
             /\ Contains(vendor_result.message, service_metadata_url)
             /\ vendor_result.message \in log
             /\ ~is_url(data)
                   => EndsWith(vendor_result.message, ExpectedLocalMetadata)

C3_Witness ==
    /\ ~is_url(data)
    /\ state = "ready"
    /\ MetadataMissing(<<"metadata">>) \in log
    /\ vendor_result.kind = "ProviderConnectionError"
    /\ Len(vendor_result.message) > 1

\* C4: a result of get_html_metadata always has id, title, tileset,
\* collections_path and json_url; it has metadata and tilejson_url as well
\* when the fetch succeeded, and exactly the five fixed keys when the fetch
\* raised a connection error.
C4_HtmlKeys ==
    html_result.kind = "return"
        => /\ FixedKeys \subseteq DOMAIN html_result.value
           /\ ("metadata" \in DOMAIN html_result.value
                  <=> "tilejson_url" \in DOMAIN html_result.value)
           /\ html_result.fetched
                 => DOMAIN html_result.value = FixedKeys \cup FetchKeys
           /\ ~html_result.fetched
                 => DOMAIN html_result.value = FixedKeys

C4_Witness ==
    /\ html_result.kind = "return"
    /\ ~html_result.fetched
    /\ \E i \in Calls("html") : fetch_log[i].answered /\ calls[i].kind = "return"

\* C5: for a URL-backed configuration construction succeeds for every HEAD
\* status, and service_metadata_url is <baseurl>/<layer>.json, with one slash
\* before the layer name, whatever the status; the intermediate .../metadata
\* value is never the final value.
C5_RemoteMetadataUrl ==
    is_url(data) /\ state # "new"
        => /\ state = "ready"
           /\ service_metadata_url = ExpectedRemoteMetadata
           /\ service_metadata_url # init_url(data, head_status).interim

\* C6: for a local path, construction raises the connection error and leaves
\* no resolver exactly when the path does not exist; otherwise it succeeds,
\* with or without a metadata file, and service_url is the path and
\* service_metadata_url is <path>/metadata.
C6_LocalConstruction ==
    ~is_url(data) /\ state # "new"
        => /\ state = "failed" <=> ~path_exists
           /\ state = "failed"
                 => /\ service_url = <<>>
                    /\ service_metadata_url = <<>>
                    /\ (<<"Service does not exist: ">> \o data) \in log
           /\ state = "ready"
                 => /\ service_url = ExpectedLocalPath
                    /\ service_metadata_url = ExpectedLocalMetadata

C6_Witness ==
    /\ data = PathDataSlash
    /\ state = "ready"
    /\ MetadataMissing(<<"metadata">>) \in log
    /\ calls = <<>>

\* C7 as stated: every render call makes exactly one fetch attempt, and
\* get_vendor_metadata raises on every call made while the location is
\* unreachable and succeeds on every call made while it is reachable,
\* whatever the earlier calls did.
C7_VendorFollowsReachability ==
    /\ Len(fetch_log) = Len(calls)
    /\ \A i \in Calls("vendor") :
          /\ ~fetch_log[i].answered
                => calls[i].kind = "ProviderConnectionError"
          /\ fetch_log[i].answered => calls[i].kind = "return"

\* C7 amended: every render call makes exactly one fetch attempt, and
\* get_vendor_metadata raises the connection error exactly on the calls made
\* while the location is unreachable, and returns on every call made while
\* it is reachable and the document there has vector_layers, whatever the
\* earlier calls did.
C7_OneFetchPerCall ==
    /\ Len(fetch_log) = Len(calls)
    /\ \A i \in 1..Len(fetch_log) : fetch_log[i].url = service_metadata_url
    /\ \A i \in Calls("vendor") :
          /\ calls[i].kind = "ProviderConnectionError"
                <=> ~fetch_log[i].answered
          /\ fetch_log[i].answered /\ HasLayers => calls[i].kind = "return"

C7_Witness ==
    \E i, j \in Calls("vendor") :
        /\ i < j
        /\ calls[i].kind = "return"
        /\ calls[j].kind = "ProviderConnectionError"

\* C8: once construction has succeeded, no call changes service_url or
\* service_metadata_url, whether the call returns or raises.
C8_LocationsFixed ==
    [][state = "ready"
          => /\ state' = "ready"
             /\ service_url' = service_url
             /\ service_metadata_url' = service_metadata_url]_vars

C8_Witness ==
    /\ state = "ready"
    /\ \E i \in Calls("html") : calls[i].kind = "return"
    /\ \E j \in Calls("vendor") : calls[j].kind # "return"

Reshaped(c, tile_url) ==
    /\ DOMAIN c = ContentKeys
    /\ \A k \in OptionalKeys :
          c[k] = IF k \in DOMAIN descriptor THEN descriptor[k] ELSE NoneValue
    /\ c["vector_layers"] = descriptor["vector_layers"]
    /\ c["tiles"] = <<tile_url>>

\* C9: for a fetched document with vector_layers and any subset of the
\* optional fields, the reshaped descriptor has every optional field, equal
\* to the fetched value if the key is there and to the default if not, the
\* fetched vector_layers, and as tiles the one URL built from server_url,
\* dataset and tileset, whatever tiles the document carried.
C9_Reshaping ==
    /\ html_result.kind = "return" /\ html_result.fetched
          => Reshaped(html_result.value.metadata, ExpectedHtmlTiles)
    /\ vendor_result.kind = "return"
          => Reshaped(vendor_result.value, ExpectedVendorTiles)

C9_Witness ==
    /\ DOMAIN descriptor = {"minzoom", "maxzoom", "vector_layers", "tiles"}
    /\ html_result.kind = "return" /\ html_result.fetched
    /\ vendor_result.kind = "return"
    /\ html_result.server_url # vendor_result.server_url

\* C10: for the same descriptor and arguments, the get_vendor_metadata
\* document equals the metadata entry of the get_html_metadata result in
\* every field but tiles; the vendor tiles URL ends in {z}/{x}/{y}?f=mvt, the
\* HTML one is collections_path and ends in
\* {tileMatrix}/{tileRow}/{tileCol}?f=mvt; the vendor document has none of
\* the envelope keys.
C10_VendorMatchesHtml ==
    /\ html_result.kind = "return"
    /\ html_result.fetched
    /\ vendor_result.kind = "return"
    /\ html_result.server_url = vendor_result.server_url
    => LET h == html_result.value.metadata
           v == vendor_result.value
       IN  /\ DOMAIN v = DOMAIN h
           /\ \A k \in DOMAIN h \ {"tiles"} : v[k] = h[k]
           /\ Len(v.tiles) = 1 /\ Len(h.tiles) = 1
           /\ EndsWith(v.tiles[1],
                       <<SLASH, "{z}", SLASH, "{x}", SLASH, "{y}", "?f=mvt">>)
           /\ EndsWith(h.tiles[1],
                       <<SLASH>> \o TilePlaceholders \o <<"?f=mvt">>)
           /\ h.tiles[1] = html_result.value.collections_path
           /\ v.tiles # h.tiles
           /\ DOMAIN v \cap (FixedKeys \cup {"tilejson_url"}) = {}

C10_Witness ==
    /\ DOMAIN descriptor = DescriptorKeys
    /\ html_result.kind = "return"
    /\ html_result.fetched
    /\ vendor_result.kind = "return"
    /\ html_result.server_url = vendor_result.server_url

====
